---- MODULE Spec2Model ----
(***************************************************************************)
(* Parametric insurance claims pipeline: Outage Monitor, Threshold         *)
(* Evaluator, Claims Decision Engine (AI Advisor and rule engines) and     *)
(* Payout Processor over the Ledger Store and the event bus.               *)
(*                                                                         *)
(* Money is kept exact: an amount a stands for a/600 dollars, so that      *)
(* (duration - threshold)/60 * hourly_rate * multiplier is the integer     *)
(* (duration - threshold) * hourly_rate * (10 * multiplier).               *)
(* Multipliers are kept in tenths (10, 11, 12, 15), confidence scores in   *)
(* ten-thousandths (9500 = 0.95).                                          *)
(***************************************************************************)
EXTENDS Integers, Sequences, FiniteSets, TLC

\* ------------------------------------------------------------------ bounds
MaxClock == 1
MaxInvocations == 3
MaxFaults == 1
MaxMonitorRuns == 1
MaxPublishCalls == 2

\* --------------------------------------------------------------- constants
\* amounts are integers in units of 1/(60*10) dollar
MoneyScale == 60 * 10
\* Python's None for an optional number
NONE == 0 - 1

Min(a, b) == IF a <= b THEN a ELSE b
Max(a, b) == IF a >= b THEN a ELSE b

\* Python truthiness of an optional number: None and 0 are falsy.
Truthy(x) == x # NONE /\ x # 0

\* ------------------------------------------------------ Ledger Store data
PolicyIds == {"BI-001", "BI-002"}
OutageIds == {"OUT-1", "OUT-2", "OUT-3"}

\* policies table (read-only reference data)
policies ==
  [p \in PolicyIds |->
     IF p = "BI-001"
     THEN [policy_id |-> p, zip_code |-> "98101", threshold_minutes |-> 120,
           hourly_rate |-> 500, max_payout |-> 10000, status |-> "active"]
     ELSE [policy_id |-> p, zip_code |-> "98052", threshold_minutes |-> 240,
           hourly_rate |-> 1000, max_payout |-> 1000, status |-> "active"]]

NoWeather == [present |-> FALSE, severe_weather_alert |-> FALSE,
              wind_speed_mph |-> 0, wind_gust_mph |-> 0, alert_type |-> "none"]

\* weather_data table, most recent observation first, by zip code
weather_data ==
  [z \in {"98101", "98052"} |->
     IF z = "98101"
     THEN << [present |-> TRUE, severe_weather_alert |-> TRUE,
              wind_speed_mph |-> 48, wind_gust_mph |-> 62, alert_type |-> "Severe"] >>
     ELSE << >>]

\* ------------------------------------------------------------- identifiers
\* f"CLM-{policy_id}-{utcnow:%Y%m%d%H%M%S}": the event id is not part of it.
create_claim_id(policy_id, event_id, now) == << "CLM", policy_id, now >>

\* f"PAY-{claim_id}-{utcnow:%Y%m%d%H%M%S}"
create_payout_id(claim_id, now) == << "PAY", claim_id, now >>


\* ------------------------------------------------- Claims Decision Engine
PLANNED == "planned_maintenance"
PlannedSignal == "planned_maintenance_not_covered"

\* AIValidationResult / result dict.  error: the call raised instead of
\* returning; complete: every required key of the result is present.
Result(dec, conf, pay, fraud, sev, wf) ==
  [error |-> FALSE, complete |-> TRUE, decision |-> dec,
   confidence_score |-> conf, payout_amount |-> pay, fraud_signals |-> fraud,
   severity_assessment |-> sev, weather_factor |-> wf]

Raised == [error |-> TRUE, complete |-> FALSE, decision |-> "raised",
           confidence_score |-> 0, payout_amount |-> 0, fraud_signals |-> {},
           severity_assessment |-> "raised", weather_factor |-> 0]

\* duration used by the two function-side rule engines: the stored
\* duration_minutes when truthy, else minutes elapsed since outage_start
\* (datetime.utcnow() - fromisoformat(outage_start)), which raises TypeError
\* when outage_start carries a UTC offset (naive minus aware).
EstimatedDuration(outage, elapsed) ==
  IF Truthy(outage.duration_minutes) THEN outage.duration_minutes
  ELSE IF outage.outage_start = "iso_utc" THEN NONE
  ELSE elapsed

\* ThresholdEvaluator.fallback_validation
fallback_validation(policy, outage, weather, elapsed) ==
  LET duration == EstimatedDuration(outage, elapsed)
      threshold == policy.threshold_minutes
      alert == weather.present /\ weather.severe_weather_alert
      windy == weather.present /\ ~weather.severe_weather_alert
                 /\ weather.wind_speed_mph > 40
      severity_multiplier == IF alert THEN 15 ELSE IF windy THEN 12 ELSE 10
      severity == IF alert \/ windy THEN "high" ELSE "medium"
      base_payout == (duration - threshold) * policy.hourly_rate
      final_payout == Min(base_payout * severity_multiplier,
                          policy.max_payout * MoneyScale)
  IN  IF duration = NONE THEN Raised
      ELSE IF duration <= threshold
      THEN Result("deny", 9500, 0, {}, "low", 10)
      ELSE Result("approve", 8500, final_payout, {}, severity, severity_multiplier)

\* ClaimsValidatorAgent._rule_based_validation
agent_rule_based_validation(policy, outage, weather, elapsed) ==
  LET duration == EstimatedDuration(outage, elapsed)
      threshold == policy.threshold_minutes
      wind == IF weather.present THEN weather.wind_speed_mph ELSE 0
      alert == weather.present /\ weather.severe_weather_alert
      severity_multiplier == IF alert THEN 15
                             ELSE IF wind > 40 THEN 12
                             ELSE IF wind > 25 THEN 11 ELSE 10
      severity == IF alert THEN "severe" ELSE IF wind > 40 THEN "high" ELSE "medium"
      base_payout == (duration - threshold) * policy.hourly_rate
      final_payout == Min(base_payout * severity_multiplier,
                          policy.max_payout * MoneyScale)
  IN  IF duration = NONE THEN Raised
      ELSE IF duration <= threshold
      THEN Result("deny", 9500, 0, {}, "low", 10)
      ELSE Result("approve", 8500, final_payout, {}, severity, severity_multiplier)

\* Policy.calculate_payout (severity_multiplier in tenths); NONE: the
\* comparison of None with an int raised
calculate_payout(policy, duration_minutes, severity_multiplier) ==
  IF duration_minutes = NONE THEN NONE
  ELSE IF duration_minutes <= policy.threshold_minutes THEN 0
  ELSE Min((duration_minutes - policy.threshold_minutes) * policy.hourly_rate
             * severity_multiplier,
           policy.max_payout * MoneyScale)

\* notebook calculate_weather_factor
calculate_weather_factor(weather) ==
  LET mx == Max(weather.wind_speed_mph, weather.wind_gust_mph)
      ha == weather.severe_weather_alert
      at == weather.alert_type
  IN  IF ~weather.present THEN << 10, "unknown" >>
      ELSE IF ha /\ (at = "Severe" \/ at = "Hurricane" \/ mx > 55) THEN << 15, "severe" >>
      ELSE IF ha \/ mx > 40 THEN << 12, "high" >>
      ELSE IF mx > 25 THEN << 11, "medium" >>
      ELSE << 10, "low" >>

\* round(x, 2) on dollars: to the nearest cent, ties to the even cent
RoundCents(a) ==
  LET q == a \div 6
      r == a % 6
      c == IF r < 3 THEN q
           ELSE IF r > 3 THEN q + 1
           ELSE IF q % 2 = 0 THEN q ELSE q + 1
  IN  c * 6

\* a rule engine that does not cap the payout at max_payout
rule_based_validation_uncapped(policy, outage, weather) ==
  LET dur == outage.duration_minutes
      excess == dur - policy.threshold_minutes
      wfsev == calculate_weather_factor(weather)
      planned == outage.reported_cause = PLANNED
      conf == Min(9200 + (IF weather.present THEN 300 ELSE 0)
                       + (IF outage.affected_customers > 5000 THEN 200 ELSE 0),
                  9900)
  IN  IF dur = NONE THEN Raised
      ELSE IF excess <= 0
      THEN Result("denied", 9500, 0, {}, "none", 10)
      ELSE Result(IF planned THEN "denied" ELSE "approved", conf,
                  RoundCents(excess * policy.hourly_rate * wfsev[1]),
                  IF planned THEN {PlannedSignal} ELSE {}, wfsev[2], wfsev[1])

\* notebook rule_based_validation
rule_based_validation(policy, outage, weather) ==
  LET dur == outage.duration_minutes
      thr == policy.threshold_minutes
      excess == dur - thr
      wfsev == calculate_weather_factor(weather)
      raw == excess * policy.hourly_rate * wfsev[1]
      final == Min(raw, policy.max_payout * MoneyScale)
      planned == outage.reported_cause = PLANNED
      fraud == IF planned THEN {PlannedSignal} ELSE {}
      conf == Min(9200 + (IF weather.present THEN 300 ELSE 0)
                       + (IF outage.affected_customers > 5000 THEN 200 ELSE 0),
                  9900)
      dec == IF planned THEN "denied" ELSE "approved"
  IN  IF dur = NONE THEN Raised
      ELSE IF excess <= 0
      THEN Result("denied", 9500, 0, {}, "none", 10)
      ELSE Result(dec, conf, RoundCents(final), fraud, wfsev[2], wfsev[1])

\* What can happen to one AI Advisor call.
AdvisorOutcomes == {"import_error", "no_client", "transport_error", "timeout",
                    "unparsable", "schema_incomplete", "ok"}

\* Well-formed JSON answers of the reasoning endpoint: the code takes
\* decision and payout_amount from the answer as they come.
AIResponses ==
  { Result("approved", 9000, 100 * MoneyScale, {}, "medium", 10),
    Result("approve", 9400, 20000 * MoneyScale, {}, "severe", 15) }

\* ClaimsValidatorAgent.validate_claim (the module is imported: outcome is
\* not import_error)
validate_claim(policy, outage, weather, elapsed, outcome, response) ==
  IF outcome = "no_client"
  THEN agent_rule_based_validation(policy, outage, weather, elapsed)
  ELSE IF outcome = "ok" THEN response
  ELSE agent_rule_based_validation(policy, outage, weather, elapsed)

\* ThresholdEvaluator.call_foundry_agent
call_foundry_agent(policy, outage, weather, elapsed, outcome, response) ==
  LET result == validate_claim(policy, outage, weather, elapsed, outcome, response)
  IN  IF outcome = "import_error" \/ result.error
      THEN fallback_validation(policy, outage, weather, elapsed)
      ELSE result

\* notebook foundry_agent_validation: json.loads(txt) is returned as it is,
\* so an answer that lacks a required key comes back incomplete.
foundry_agent_validation(policy, outage, weather, outcome, response) ==
  IF outcome \in {"import_error", "no_client"}
  THEN rule_based_validation(policy, outage, weather)
  ELSE IF outcome = "ok" THEN response
  ELSE IF outcome = "schema_incomplete" THEN [response EXCEPT !.complete = FALSE]
  ELSE rule_based_validation(policy, outage, weather)


\* ---------------------------------------------------------- pipeline state
VARIABLES
  clock,          \* datetime.utcnow(), in whole seconds
  outage_events,  \* Ledger Store: outage_events table, by event_id
  claims,         \* Ledger Store: claims table, rows in insertion order
  payouts,        \* Ledger Store: payouts table, rows in insertion order
  bus,            \* events accepted by the Event Grid topic, in order
  te,             \* Threshold Evaluator invocations, in order
  pp,             \* Payout Processor invocations, in order
  gateway,        \* calls of process_payment, in order
  faults,         \* transport / store / gateway failures so far
  monitor_runs,   \* Outage Monitor timer ticks so far
  din,            \* decision engine under test: inputs
  dout,           \* decision engine under test: results
  orm             \* Outage Resolution Monitor runs, in order

vars == << clock, outage_events, claims, payouts, bus, te, pp, gateway,
           faults, monitor_runs, din, dout, orm >>

OutageOrder == << "OUT-1", "OUT-2", "OUT-3" >>
PolicyOrder == << "BI-001", "BI-002" >>

InitOutages ==
  [o \in OutageIds |->
     IF o = "OUT-1"
     THEN [event_id |-> o, zip_code |-> "98101", duration_minutes |-> 187,
           reported_cause |-> "storm_damage", status |-> "active",
           outage_start |-> "iso_naive", affected_customers |-> 8420,
           has_coordinates |-> TRUE, outage_end |-> NONE,
           last_updated |-> 0]
     ELSE IF o = "OUT-2"
     THEN [event_id |-> o, zip_code |-> "98052", duration_minutes |-> 120,
           reported_cause |-> PLANNED, status |-> "active",
           outage_start |-> "iso_naive", affected_customers |-> 1200,
           has_coordinates |-> TRUE, outage_end |-> NONE,
           last_updated |-> 0]
     ELSE [event_id |-> o, zip_code |-> "98004", duration_minutes |-> 300,
           reported_cause |-> "storm_damage", status |-> "active",
           outage_start |-> "iso_naive", affected_customers |-> 640,
           has_coordinates |-> TRUE, outage_end |-> NONE,
           last_updated |-> 0]]

\* policies within 10 miles of an outage (the store's radius query)
NearTable ==
  [o \in OutageIds |-> IF o \in {"OUT-1", "OUT-3"} THEN << "BI-002" >>
                       ELSE << "BI-001" >>]

\* ------------------------------------------------------ Ledger Store client
\* FabricClient.get_active_outages
get_active_outages == SelectSeq(OutageOrder, LAMBDA o : outage_events[o].status = "active")

\* FabricClient.get_policies_in_zip
get_policies_in_zip(zip) ==
  SelectSeq(PolicyOrder, LAMBDA p : policies[p].zip_code = zip /\ policies[p].status = "active")

\* FabricClient.get_policies_near_location
get_policies_near_location(o) ==
  SelectSeq(NearTable[o], LAMBDA p : policies[p].status = "active")

\* the outage row as it was when the outage was detected
get_outage_event_asdetected(event_id) == InitOutages[event_id]

\* FabricClient.get_outage_event: the row as it is now
get_outage_event(event_id) == outage_events[event_id]

\* FabricClient.get_recent_weather, first record or none
MostRecentWeather(zip) ==
  IF zip \in DOMAIN weather_data /\ Len(weather_data[zip]) > 0
  THEN weather_data[zip][1] ELSE NoWeather

\* FabricClient.get_claim: the first row with that claim_id, or none (0)
get_claim(claim_id) ==
  IF \E i \in 1..Len(claims) : claims[i].claim_id = claim_id
  THEN CHOOSE i \in 1..Len(claims) :
         /\ claims[i].claim_id = claim_id
         /\ \A j \in 1..(i - 1) : claims[j].claim_id # claim_id
  ELSE 0

\* FabricClient.insert_claim / insert_payout: a plain INSERT into a table
\* without key constraints; on a store error nothing is written.
insert_row(table, row, ok) == IF ok THEN Append(table, row) ELSE table

\* SET k = :k for the keyword arguments of an update call
SetClause(row, kwargs) ==
  [f \in DOMAIN row |-> IF f \in DOMAIN kwargs THEN kwargs[f] ELSE row[f]]

\* FabricClient.update_payout: UPDATE payouts SET ... WHERE payout_id = :payout_id
update_payout(table, payout_id, kwargs, ok) ==
  IF ~ok THEN table
  ELSE [i \in 1..Len(table) |->
          IF table[i].payout_id = payout_id
          THEN SetClause(table[i], kwargs) ELSE table[i]]

\* FabricClient.update_claim: UPDATE claims SET ... WHERE claim_id = :claim_id
update_claim(table, claim_id, kwargs, ok) ==
  IF ~ok THEN table
  ELSE [i \in 1..Len(table) |->
          IF table[i].claim_id = claim_id
          THEN SetClause(table[i], kwargs) ELSE table[i]]

\* EventGridClient.publish_event: the event reaches the topic or the send fails
publish_event(b, event, ok) == IF ok THEN Append(b, event) ELSE b

\* failures still allowed to happen
FaultsLeft == MaxFaults - faults
\* the subsets of the steps of a handler that fail, within what is left
FaultSets(steps) == { f \in SUBSET steps : Cardinality(f) <= FaultsLeft }

\* ------------------------------------------------------------------- Init
PipeInit ==
  /\ clock = 0
  /\ outage_events = InitOutages
  /\ claims = << >>
  /\ payouts = << >>
  /\ bus = << >>
  /\ te = << >>
  /\ pp = << >>
  /\ gateway = << >>
  /\ faults = 0
  /\ monitor_runs = 0
  /\ orm = << >>

NoDecision == [pc |-> "idle"]

Init ==
  /\ PipeInit
  /\ din = NoDecision
  /\ dout = NoDecision

\* the clock advances
Tick ==
  /\ clock < MaxClock
  /\ clock' = clock + 1
  /\ UNCHANGED << outage_events, claims, payouts, bus, te, pp, gateway,
                  faults, monitor_runs, din, dout, orm >>

\* --------------------------------------------------------- Outage Monitor
\* EventGridClient.publish_outage_detected payload
OutageDetectedEvent(outage, policy_ids) ==
  [event_type |-> "outage.detected", subject |-> << "outage", outage.event_id >>,
   event_id |-> outage.event_id, affected_policies |-> policy_ids,
   policy_count |-> Len(policy_ids)]

\* {p['policy_id']: p for p in affected_policies + nearby_policies}: the ids
\* in order of first occurrence
RECURSIVE Dedup(_)
Dedup(s) ==
  IF s = << >> THEN << >>
  ELSE LET front == Dedup(SubSeq(s, 1, Len(s) - 1))
           last == s[Len(s)]
       IN  IF \E i \in 1..Len(front) : front[i] = last THEN front
           ELSE Append(front, last)

\* the policies the monitor finds for one outage
AffectedPolicies(outage) ==
  LET affected_policies == get_policies_in_zip(outage.zip_code)
  IN  IF affected_policies = << >> THEN << >>
      ELSE IF outage.has_coordinates
      THEN Dedup(affected_policies \o get_policies_near_location(outage.event_id))
      ELSE affected_policies

\* a loop that a failure ends: the outages after the failed one are not reached
RECURSIVE MonitorLoop_abort(_, _, _)
MonitorLoop_abort(active, lost, b) ==
  IF active = << >> THEN b
  ELSE LET outage == outage_events[Head(active)]
           ids == AffectedPolicies(outage)
       IN  IF ids = << >> THEN MonitorLoop_abort(Tail(active), lost, b)
           ELSE IF Head(active) \in lost THEN b
           ELSE MonitorLoop_abort(Tail(active), lost,
                  publish_event(b, OutageDetectedEvent(outage, ids), TRUE))

\* the loop of OutageMonitor.main over the active outages; lost: the outages
\* whose processing raised (except: continue) or whose publish returned False
RECURSIVE MonitorLoop(_, _, _)
MonitorLoop(active, lost, b) ==
  IF active = << >> THEN b
  ELSE LET outage == outage_events[Head(active)]
           ids == AffectedPolicies(outage)
           b1 == IF ids = << >> THEN b
                 ELSE publish_event(b, OutageDetectedEvent(outage, ids),
                                    Head(active) \notin lost)
       IN  MonitorLoop(Tail(active), lost, b1)

\* a run that also writes the Ledger Store: it marks every active outage
\* as detected
OutageMonitor_marks ==
  /\ monitor_runs < MaxMonitorRuns
  /\ \E lost \in FaultSets({ o \in OutageIds :
                            /\ outage_events[o].status = "active"
                            /\ AffectedPolicies(outage_events[o]) # << >> }) :
       /\ bus' = MonitorLoop(get_active_outages, lost, bus)
       /\ faults' = faults + Cardinality(lost)
  /\ monitor_runs' = monitor_runs + 1
  /\ outage_events' = [o \in OutageIds |->
                         IF outage_events[o].status = "active"
                         THEN [outage_events[o] EXCEPT !.status = "detected"]
                         ELSE outage_events[o]]
  /\ UNCHANGED << clock, claims, payouts, te, pp, gateway, din, dout, orm >>

\* OutageMonitor.main: one timer-triggered run
OutageMonitor ==
  /\ monitor_runs < MaxMonitorRuns
  /\ \E lost \in FaultSets({ o \in OutageIds :
                            /\ outage_events[o].status = "active"
                            /\ AffectedPolicies(outage_events[o]) # << >> }) :
       /\ bus' = MonitorLoop(get_active_outages, lost, bus)
       /\ faults' = faults + Cardinality(lost)
  /\ monitor_runs' = monitor_runs + 1
  /\ UNCHANGED << clock, outage_events, claims, payouts, te, pp, gateway,
                  din, dout, orm >>

\* ----------------------------------------------------- Threshold Evaluator
\* EventGridClient.publish_threshold_exceeded payload
ThresholdExceededEvent(policy_id, outage, duration, threshold) ==
  [event_type |-> "outage.threshold.exceeded", subject |-> << "policy", policy_id >>,
   policy_id |-> policy_id, event_id |-> outage.event_id,
   duration_minutes |-> duration, threshold_minutes |-> threshold,
   minutes_over_threshold |-> duration - threshold]

\* status of the Claim built from a verdict
ClaimStatusOf(decision) == IF decision = "approve" THEN "approved" ELSE "denied"

\* Claim(...) as written by insert_claim
ClaimRow(policy_id, outage_event_id, result, now) ==
  [claim_id |-> create_claim_id(policy_id, outage_event_id, now),
   policy_id |-> policy_id, outage_event_id |-> outage_event_id,
   status |-> ClaimStatusOf(result.decision), filed_at |-> now,
   payout_amount |-> result.payout_amount,
   ai_confidence_score |-> result.confidence_score,
   fraud_flags |-> result.fraud_signals]

\* EventGridClient.publish_claim_validated payload
ClaimValidatedEvent(claim) ==
  [event_type |-> IF claim.status = "approved" THEN "claim.approved" ELSE "claim.denied",
   subject |-> << "claim", claim.claim_id >>,
   claim_id |-> claim.claim_id, policy_id |-> claim.policy_id,
   outage_event_id |-> claim.outage_event_id, status |-> claim.status,
   payout_amount |-> claim.payout_amount,
   ai_confidence_score |-> claim.ai_confidence_score,
   fraud_flags |-> claim.fraud_flags]

\* what the AI Advisor does on one call: an outcome and, when it answers,
\* the answer (unused otherwise)
AdvisorCalls ==
  { c \in AdvisorOutcomes \X AIResponses :
      c[1] # "ok" => c[2] = CHOOSE r \in AIResponses : TRUE }

\* the body of the policy loop of ThresholdEvaluator.main for the policy at
\* position i, from the threshold-exceeded event on; st holds the claims table, the bus, the positions whose
\* verdict was reached (with the decision returned) and the positions that
\* ended in the except branch or in "not found".  advisor[i] is what the AI Advisor does for that policy,
\* f the steps that fail.
TEDecide(ctx, i, st) ==
  LET policy_id == ctx.affected_policies[i]
      outage_data == ctx.outage_data
      duration == outage_data.duration_minutes
      threshold == policies[policy_id].threshold_minutes
      b1 == publish_event(st.bus,
              ThresholdExceededEvent(policy_id, outage_data, duration, threshold),
              << i, "publish_threshold" >> \notin ctx.f)
      result == call_foundry_agent(policies[policy_id], outage_data,
                  ctx.weather_data, ctx.now \div 60,
                  ctx.advisor[i][1], ctx.advisor[i][2])
      claim == ClaimRow(policy_id, ctx.outage_event_id, result, ctx.now)
  IN  IF result.error THEN [st EXCEPT !.bus = b1, !.errors = @ \cup {i}]
      ELSE [st EXCEPT
              !.claims = insert_row(@, claim, << i, "insert_claim" >> \notin ctx.f),
              !.bus = publish_event(b1, ClaimValidatedEvent(claim),
                                    << i, "publish_claim" >> \notin ctx.f),
              !.reached = @ \cup {i},
              !.verdicts = @ @@ (i :> result.decision)]

\* a loop body without the threshold test: every policy found goes on to the
\* decision engine (the AI Advisor being unavailable for the extra ones)
TEPolicy_nothreshold(ctx, i, st) ==
  LET policy_id == ctx.affected_policies[i]
      advisor == [k \in 1..Len(ctx.affected_policies) |->
                    IF k \in DOMAIN ctx.advisor THEN ctx.advisor[k]
                    ELSE << "import_error", CHOOSE r \in AIResponses : TRUE >>]
  IN  IF policy_id \notin DOMAIN policies \/ << i, "get_policy" >> \in ctx.f
         \/ ctx.outage_data.duration_minutes = NONE
      THEN [st EXCEPT !.errors = @ \cup {i}]
      ELSE TEDecide([ctx EXCEPT !.advisor = advisor], i, st)

\* the whole loop body: get_policy, the threshold test, then the rest
TEPolicy(ctx, i, st) ==
  LET policy_id == ctx.affected_policies[i]
      duration == ctx.outage_data.duration_minutes
  IN  IF policy_id \notin DOMAIN policies \/ << i, "get_policy" >> \in ctx.f
         \/ duration = NONE
      THEN [st EXCEPT !.errors = @ \cup {i}]
      ELSE IF duration < policies[policy_id].threshold_minutes THEN st
      ELSE TEDecide(ctx, i, st)

\* a policy loop that the first failing policy ends
RECURSIVE TELoop_abort(_, _, _)
TELoop_abort(ctx, i, st) ==
  IF i > Len(ctx.affected_policies) THEN st
  ELSE LET st1 == TEPolicy(ctx, i, st)
       IN  IF i \in st1.errors THEN st1 ELSE TELoop_abort(ctx, i + 1, st1)

\* for policy_id in affected_policies: ...
RECURSIVE TELoop(_, _, _)
TELoop(ctx, i, st) ==
  IF i > Len(ctx.affected_policies) THEN st
  ELSE TELoop(ctx, i + 1, TEPolicy(ctx, i, st))

\* the positions of an invocation whose policy is past its threshold
Evaluated(affected_policies, outage_data) ==
  { i \in 1..Len(affected_policies) :
      /\ affected_policies[i] \in DOMAIN policies
      /\ outage_data.duration_minutes # NONE
      /\ outage_data.duration_minutes >= policies[affected_policies[i]].threshold_minutes }

\* the failures of one invocation: a get_policy that fails for a position,
\* or steps of a position that reaches the decision engine
TEFaultSets(affected_policies, evaluated) ==
  { f \in FaultSets(((1..Len(affected_policies)) \X {"get_policy"})
                    \cup (evaluated \X
                            {"publish_threshold", "insert_claim", "publish_claim"})) :
      \A x \in f : x[2] = "get_policy" => \A y \in f : y[1] = x[1] => y = x }

\* ThresholdEvaluator.main: one invocation for the delivery of event j
ThresholdEvaluator(j) ==
  /\ j \in 1..Len(bus)
  /\ bus[j].event_type = "outage.detected"
  /\ Len(te) + Len(pp) < MaxInvocations
  /\ LET outage_event_id == bus[j].event_id
         affected_policies == bus[j].affected_policies
     IN  IF affected_policies = << >> \/ outage_event_id \notin DOMAIN outage_events
         THEN /\ te' = Append(te, [event |-> j, pc |-> "returned"])
              /\ UNCHANGED << claims, bus, faults >>
         ELSE LET outage_data == get_outage_event(outage_event_id)
                  evaluated == Evaluated(affected_policies, outage_data)
              IN  \E f \in TEFaultSets(affected_policies, evaluated) :
                  \E advisor \in [{ i \in evaluated : << i, "get_policy" >> \notin f }
                                    -> AdvisorCalls] :
                    LET ctx == [outage_event_id |-> outage_event_id,
                                affected_policies |-> affected_policies,
                                outage_data |-> outage_data,
                                weather_data |-> MostRecentWeather(outage_data.zip_code),
                                now |-> clock, advisor |-> advisor, f |-> f]
                        st == TELoop(ctx, 1, [claims |-> claims, bus |-> bus,
                                              reached |-> {}, errors |-> {},
                                              verdicts |-> << >>])
                    IN  /\ claims' = st.claims
                        /\ bus' = st.bus
                        /\ faults' = faults + Cardinality(f)
                        /\ te' = Append(te, [event |-> j, pc |-> "done",
                                             now |-> clock,
                                             reached |-> st.reached,
                                             errors |-> st.errors,
                                             verdicts |-> st.verdicts])
  /\ UNCHANGED << clock, outage_events, payouts, pp, gateway, monitor_runs,
                  din, dout, orm >>

\* -------------------------------------------------------- Payout Processor
\* a missing claim_id / policy_id in an event payload (None or empty)
NoClaimId == << >>
NoPolicyId == ""

\* the guards that test only for missing fields, not for the sign of the amount
PPIgnores_onlymissing(event) ==
  \/ event.claim_id = NoClaimId
  \/ event.policy_id = NoPolicyId
  \/ ~Truthy(event.payout_amount)

\* the two guards of PayoutProcessor.main: not all([claim_id, policy_id,
\* payout_amount]) and payout_amount <= 0
PPIgnores(event) ==
  \/ event.claim_id = NoClaimId
  \/ event.policy_id = NoPolicyId
  \/ ~Truthy(event.payout_amount)
  \/ event.payout_amount <= 0

\* PayoutProcessor.main up to the return of process_payment: guards, reads,
\* Payout(...), insert_payout, then the Payment Gateway settles or fails
PPStart(j) ==
  /\ j \in 1..Len(bus)
  /\ bus[j].event_type = "claim.approved"
  /\ Len(te) + Len(pp) < MaxInvocations
  /\ LET claim_id == bus[j].claim_id
         policy_id == bus[j].policy_id
         payout_amount == bus[j].payout_amount
         row == get_claim(claim_id)
     IN  IF PPIgnores(bus[j]) \/ row = 0 \/ policy_id \notin DOMAIN policies
         THEN /\ pp' = Append(pp, [event |-> j, pc |-> "returned"])
              /\ UNCHANGED << payouts, gateway, faults >>
         ELSE \E f \in FaultSets({"insert_payout", "gateway"}) :
                LET payout == [payout_id |-> create_payout_id(claim_id, clock),
                               claim_id |-> claim_id, policy_id |-> policy_id,
                               amount |-> payout_amount, status |-> "processing",
                               initiated_at |-> clock, transaction_id |-> << >>]
                    success == "gateway" \notin f
                IN  /\ payouts' = insert_row(payouts, payout, "insert_payout" \notin f)
                    /\ gateway' = Append(gateway, [claim_id |-> claim_id,
                                                   payout_id |-> payout.payout_id,
                                                   amount |-> payout.amount,
                                                   success |-> success])
                    /\ pp' = Append(pp, [event |-> j, payout |-> payout,
                                         claim_data |-> claims[row],
                                         failed |-> f,
                                         notification |-> "none",
                                         pc |-> IF success THEN "completing" ELSE "failing"])
                    /\ faults' = faults + Cardinality(f)
  /\ UNCHANGED << clock, outage_events, claims, bus, te, monitor_runs, din, dout, orm >>

\* EventGridClient.publish_payout_processed payload
PayoutProcessedEvent(payout) ==
  [event_type |-> "payout.processed", subject |-> << "payout", payout.payout_id >>,
   payout_id |-> payout.payout_id, claim_id |-> payout.claim_id,
   policy_id |-> payout.policy_id, amount |-> payout.amount,
   status |-> payout.status, transaction_id |-> payout.transaction_id]

\* the Payout object of invocation k after the success branch has set it
CompletedPayout(k) ==
  [pp[k].payout EXCEPT !.status = "completed",
                       !.transaction_id = << "TXN", clock >>]

\* a success branch in which a failed notification escapes and ends the
\* invocation before the PayoutProcessed event
PPSuccess_notifyfatal(k, f) ==
  LET payout == CompletedPayout(k)
  IN  [payouts |-> update_payout(payouts, payout.payout_id,
                     [status |-> "completed", transaction_id |-> payout.transaction_id],
                     "update_payout" \notin f),
       claims |-> update_claim(claims, payout.claim_id, [status |-> "paid"],
                               "update_claim" \notin f),
       bus |-> IF "notify" \in f THEN bus
               ELSE publish_event(bus, PayoutProcessedEvent(payout),
                                  "publish_payout" \notin f)]

\* what the success branch writes: update_payout(status=completed,
\* transaction_id=...), update_claim(status=paid), send_notification (its
\* result is only logged), publish_payout_processed
PPSuccess(k, f) ==
  LET payout == CompletedPayout(k)
  IN  [payouts |-> update_payout(payouts, payout.payout_id,
                     [status |-> "completed", transaction_id |-> payout.transaction_id],
                     "update_payout" \notin f),
       claims |-> update_claim(claims, payout.claim_id, [status |-> "paid"],
                               "update_claim" \notin f),
       bus |-> publish_event(bus, PayoutProcessedEvent(payout),
                             "publish_payout" \notin f)]

\* success branch of PayoutProcessor.main; f: the steps that fail, "notify"
\* being send_notification returning False
PPComplete(k) ==
  /\ k \in 1..Len(pp)
  /\ pp[k].pc = "completing"
  /\ \E f \in FaultSets({"update_payout", "update_claim", "notify", "publish_payout"}) :
       LET w == PPSuccess(k, f)
       IN  /\ faults' = faults + Cardinality(f)
           /\ payouts' = w.payouts
           /\ claims' = w.claims
           /\ bus' = w.bus
           /\ pp' = [pp EXCEPT ![k].pc = "done", ![k].payout = CompletedPayout(k),
                               ![k].failed = @ \cup f,
                               ![k].notification =
                                 IF "notify" \in f THEN "failed" ELSE "sent"]
  /\ UNCHANGED << clock, outage_events, te, gateway, monitor_runs, din, dout, orm >>

\* a failure branch that calls the Payment Gateway a second time
PPMarkFailed_retry(k) ==
  /\ k \in 1..Len(pp)
  /\ pp[k].pc = "failing"
  /\ payouts' = update_payout(payouts, pp[k].payout.payout_id,
                              [status |-> "failed"], TRUE)
  /\ gateway' = Append(gateway, [claim_id |-> pp[k].payout.claim_id,
                                 payout_id |-> pp[k].payout.payout_id,
                                 amount |-> pp[k].payout.amount,
                                 success |-> FALSE])
  /\ pp' = [pp EXCEPT ![k].pc = "done"]
  /\ UNCHANGED << clock, outage_events, claims, bus, te, faults,
                  monitor_runs, din, dout, orm >>

\* failure branch: update_payout(status=failed)
PPMarkFailed(k) ==
  /\ k \in 1..Len(pp)
  /\ pp[k].pc = "failing"
  /\ payouts' = update_payout(payouts, pp[k].payout.payout_id,
                              [status |-> "failed"], TRUE)
  /\ pp' = [pp EXCEPT ![k].pc = "done"]
  /\ UNCHANGED << clock, outage_events, claims, bus, te, gateway, faults,
                  monitor_runs, din, dout, orm >>

\* ------------------------------------------------------------------- Next
Next ==
  \/ Tick
  \/ OutageMonitor
  \/ \E j \in 1..Len(bus) : ThresholdEvaluator(j)
  \/ \E j \in 1..Len(bus) : PPStart(j)
  \/ \E k \in 1..Len(pp) : PPComplete(k)
  \/ \E k \in 1..Len(pp) : PPMarkFailed(k)

Spec == Init /\ [][Next]_vars


\* -------------------------------------------- Payout Processor on its own
\* the approved Claim the test events refer to
PPTestClaim ==
  ClaimRow("BI-001", "OUT-1",
           Result("approve", 8500, 558 * MoneyScale, {}, "medium", 10), 0)

\* claim.approved payloads as the topic can deliver them: the well-formed
\* one, and the same with claim_id, policy_id or payout_amount missing, with
\* a zero and with a negative payout_amount
PPTestEvents ==
  LET e == ClaimValidatedEvent(PPTestClaim)
  IN  { e,
        [e EXCEPT !.claim_id = NoClaimId],
        [e EXCEPT !.policy_id = NoPolicyId],
        [e EXCEPT !.payout_amount = NONE],
        [e EXCEPT !.payout_amount = 0],
        [e EXCEPT !.payout_amount = 0 - 50 * MoneyScale] }

\* the Claim is stored and two claim.approved events wait on the topic
PPInit ==
  /\ clock = 0
  /\ outage_events = InitOutages
  /\ claims = << PPTestClaim >>
  /\ payouts = << >>
  /\ bus \in { << e1, e2 >> : e1 \in PPTestEvents, e2 \in PPTestEvents }
  /\ te = << >>
  /\ pp = << >>
  /\ gateway = << >>
  /\ faults = 0
  /\ monitor_runs = 0
  /\ orm = << >>
  /\ din = NoDecision
  /\ dout = NoDecision

PPNext ==
  \/ Tick
  \/ \E j \in 1..Len(bus) : PPStart(j)
  \/ \E k \in 1..Len(pp) : PPComplete(k)
  \/ \E k \in 1..Len(pp) : PPMarkFailed(k)

SpecPP == PPInit /\ [][PPNext]_vars

\* ------------------------------------------- outages that go on after detection
MaxDuration == 480
MaxFreshEvaluations == 1

\* minutes by which a refresh of the outage feed extends an active outage
TestGrowth == {180}

\* the outages that are still going on
GrowingOutages == {"OUT-2"}

\* the outage feed rewrites the duration of an outage that is still active
\* (FabricClient.update_outage_event(event_id, duration_minutes=...))
OutageGrows(o) ==
  /\ outage_events[o].status = "active"
  /\ Truthy(outage_events[o].duration_minutes)
  /\ \E g \in TestGrowth :
       /\ outage_events[o].duration_minutes + g <= MaxDuration
       /\ outage_events' =
            [outage_events EXCEPT ![o].duration_minutes = @ + g,
                                  ![o].last_updated = clock]
  /\ UNCHANGED << clock, claims, payouts, bus, te, pp, gateway, faults,
                  monitor_runs, din, dout, orm >>

\* the other outages are over; the growing ones are active
FreshInit ==
  /\ clock = 0
  /\ outage_events =
       [o \in OutageIds |->
          IF o \in GrowingOutages THEN InitOutages[o]
          ELSE [InitOutages[o] EXCEPT !.status = "resolved", !.outage_end = 0]]
  /\ claims = << >>
  /\ payouts = << >>
  /\ bus = << >>
  /\ te = << >>
  /\ pp = << >>
  /\ gateway = << >>
  /\ faults = 0
  /\ monitor_runs = 0
  /\ orm = << >>
  /\ din = NoDecision
  /\ dout = NoDecision

\* a delivery of an OutageDetected event to the Threshold Evaluator
FreshEvaluation(j) ==
  /\ Len(te) < MaxFreshEvaluations
  /\ ThresholdEvaluator(j)

FreshNext ==
  \/ \E o \in GrowingOutages : OutageGrows(o)
  \/ OutageMonitor
  \/ \E j \in 1..Len(bus) : FreshEvaluation(j)

SpecFresh == FreshInit /\ [][FreshNext]_vars

\* ----------------------------------------------- Outage Resolution Monitor
MaxResolutionRuns == 2

\* an outage longer than this many minutes is taken as resolved
ResolvedAfterMinutes == 480

\* FabricClient.update_outage_event(event_id, status='resolved',
\* outage_end=utcnow()): UPDATE ... SET status, outage_end, last_updated =
\* GETUTCDATE() WHERE event_id = :event_id
update_outage_event(rows, event_id, status, outage_end) ==
  [rows EXCEPT ![event_id] = [@ EXCEPT !.status = status,
                                       !.outage_end = outage_end,
                                       !.last_updated = clock]]

\* the loop of OutageResolutionMonitor.main over the rows it has read
RECURSIVE ResolveLoop(_, _)
ResolveLoop(active_outages, rows) ==
  IF active_outages = << >> THEN rows
  ELSE LET outage == Head(active_outages)
           rows1 == IF Truthy(outage.duration_minutes)
                       /\ outage.duration_minutes > ResolvedAfterMinutes
                    THEN update_outage_event(rows, outage.event_id, "resolved", clock)
                    ELSE rows
       IN  ResolveLoop(Tail(active_outages), rows1)

\* OutageResolutionMonitor.main, the read: get_active_outages
ORMStart ==
  /\ Len(orm) < MaxResolutionRuns
  /\ orm' = Append(orm, [pc |-> "resolving",
                         active_outages |->
                           [i \in 1..Len(get_active_outages) |->
                              outage_events[get_active_outages[i]]]])
  /\ UNCHANGED << clock, outage_events, claims, payouts, bus, te, pp, gateway,
                  faults, monitor_runs, din, dout >>

\* OutageResolutionMonitor.main, the loop over the rows read
ORMResolve(k) ==
  /\ k \in 1..Len(orm)
  /\ orm[k].pc = "resolving"
  /\ outage_events' = ResolveLoop(orm[k].active_outages, outage_events)
  /\ orm' = [orm EXCEPT ![k].pc = "done"]
  /\ UNCHANGED << clock, claims, payouts, bus, te, pp, gateway, faults,
                  monitor_runs, din, dout >>

\* durations the ingested outages can have when the monitors run
ORMTestDurations == {NONE, 300, 600}

ORMInit ==
  /\ clock = 0
  /\ outage_events \in
       { [o \in OutageIds |-> [InitOutages[o] EXCEPT !.duration_minutes = d[o]]] :
           d \in [OutageIds -> ORMTestDurations] }
  /\ claims = << >>
  /\ payouts = << >>
  /\ bus = << >>
  /\ te = << >>
  /\ pp = << >>
  /\ gateway = << >>
  /\ faults = 0
  /\ monitor_runs = 0
  /\ orm = << >>
  /\ din = NoDecision
  /\ dout = NoDecision

ORMNext ==
  \/ Tick
  \/ OutageMonitor
  \/ ORMStart
  \/ \E k \in 1..Len(orm) : ORMResolve(k)

SpecORM == ORMInit /\ [][ORMNext]_vars

\* ------------------------------------------------------- event clients
\* the three classes that publish events
EventClients == {"EventGridClient", "NotebookEventGridClient", "LocalEventLogger"}

\* what the transport does with one send / POST
TransportOutcomes == {"ok", "timeout", "http_error"}

\* __init__: an empty audit log and a zero event counter; sent is the list
\* of events the topic accepted.  EventGridClient has no audit_log attribute
\* and never writes one.
NewClient(class) ==
  [class |-> class, audit_log |-> << >>, event_counter |-> 0, sent |-> << >>]

\* the audit dict as first built: status "pending"
AuditRecord(sequence, event) ==
  [sequence |-> sequence, event_type |-> event.event_type,
   subject |-> event.subject, status |-> "pending"]

\* Python's bool return value
PyBool(b) == IF b THEN "True" ELSE "False"

\* publish_event without its try/except: a failed send propagates
EventGridClient_publish_event_uncaught(self, event, outcome) ==
  << [self EXCEPT !.sent = publish_event(@, event, outcome = "ok")],
     IF outcome = "ok" THEN "True" ELSE "raised" >>

\* EventGridClient.publish_event: << self afterwards, return value >>
EventGridClient_publish_event(self, event, outcome) ==
  << [self EXCEPT !.sent = publish_event(@, event, outcome = "ok")],
     PyBool(outcome = "ok") >>

\* EventGridClient.publish_events
EventGridClient_publish_events(self, events, outcome) ==
  << [self EXCEPT !.sent = IF outcome = "ok" THEN @ \o events ELSE @],
     PyBool(outcome = "ok") >>

\* publish_event that takes the sequence number back when the POST failed
NotebookEventGridClient_publish_event_reused(self, event, outcome) ==
  LET counter == self.event_counter + 1
      audit == AuditRecord(counter, event)
  IN  IF outcome = "ok"
      THEN << [self EXCEPT !.event_counter = counter,
                           !.audit_log = Append(@, [audit EXCEPT !.status = "published"]),
                           !.sent = Append(@, event)],
              "True" >>
      ELSE << [self EXCEPT !.audit_log = Append(@, [audit EXCEPT !.status = "failed"])],
              "False" >>

\* NotebookEventGridClient.publish_event
NotebookEventGridClient_publish_event(self, event, outcome) ==
  LET counter == self.event_counter + 1
      audit == AuditRecord(counter, event)
  IN  IF outcome = "ok"
      THEN << [self EXCEPT !.event_counter = counter,
                           !.audit_log = Append(@, [audit EXCEPT !.status = "published"]),
                           !.sent = Append(@, event)],
              "True" >>
      ELSE << [self EXCEPT !.event_counter = counter,
                           !.audit_log = Append(@, [audit EXCEPT !.status = "failed"])],
              "False" >>

\* publish_batch that forgets the audit records of a failed batch
NotebookEventGridClient_publish_batch_dropped(self, events, outcome) ==
  LET audits == [i \in 1..Len(events) |->
                   [AuditRecord(self.event_counter + i, events[i])
                      EXCEPT !.status = "published"]]
      counter == self.event_counter + Len(events)
  IN  IF outcome = "ok"
      THEN << [self EXCEPT !.event_counter = counter,
                           !.audit_log = @ \o audits,
                           !.sent = @ \o events],
              "True" >>
      ELSE << [self EXCEPT !.event_counter = counter], "False" >>

\* NotebookEventGridClient.publish_batch
NotebookEventGridClient_publish_batch(self, events, outcome) ==
  LET audits == [i \in 1..Len(events) |->
                   AuditRecord(self.event_counter + i, events[i])]
      counter == self.event_counter + Len(events)
      mark(st) == [i \in 1..Len(events) |-> [audits[i] EXCEPT !.status = st]]
  IN  IF outcome = "ok"
      THEN << [self EXCEPT !.event_counter = counter,
                           !.audit_log = @ \o mark("published"),
                           !.sent = @ \o events],
              "True" >>
      ELSE << [self EXCEPT !.event_counter = counter,
                           !.audit_log = @ \o mark("failed")],
              "False" >>

\* LocalEventLogger.publish_event
LocalEventLogger_publish_event(self, event) ==
  LET counter == self.event_counter + 1
  IN  << [self EXCEPT !.event_counter = counter,
                      !.audit_log = Append(@, [AuditRecord(counter, event)
                                                 EXCEPT !.status = "local_only"])],
         "True" >>

\* LocalEventLogger.publish_batch: publish_event for each event in turn
RECURSIVE LocalEventLogger_publish_batch(_, _)
LocalEventLogger_publish_batch(self, events) ==
  IF events = << >> THEN << self, "True" >>
  ELSE LocalEventLogger_publish_batch(
         LocalEventLogger_publish_event(self, Head(events))[1], Tail(events))

\* ------------------------------------------- the pure functions on their own
\* Inputs of the decision functions and of the id functions, and one action
\* each that applies them.
TestPolicies ==
  [policy_id : {"BI-001"}, threshold_minutes : {60, 120}, hourly_rate : {500},
   max_payout : {500, 10000}]

TestOutages ==
  [event_id : {"OUT-1"}, duration_minutes : {NONE, 0, 90, 120, 187, 1500},
   reported_cause : {"storm_damage", PLANNED},
   outage_start : {"iso_naive", "iso_utc"},
   affected_customers : {1200, 8420}]

TestWeather ==
  { NoWeather,
    [present |-> TRUE, severe_weather_alert |-> TRUE, wind_speed_mph |-> 48,
     wind_gust_mph |-> 62, alert_type |-> "Severe"],
    [present |-> TRUE, severe_weather_alert |-> TRUE, wind_speed_mph |-> 10,
     wind_gust_mph |-> 15, alert_type |-> "Flood"],
    [present |-> TRUE, severe_weather_alert |-> FALSE, wind_speed_mph |-> 45,
     wind_gust_mph |-> 50, alert_type |-> "none"],
    [present |-> TRUE, severe_weather_alert |-> FALSE, wind_speed_mph |-> 30,
     wind_gust_mph |-> 20, alert_type |-> "none"],
    [present |-> TRUE, severe_weather_alert |-> FALSE, wind_speed_mph |-> 10,
     wind_gust_mph |-> 12, alert_type |-> "none"] }

\* minutes between outage_start and the call
TestElapsed == {30, 200}

DecideInputs ==
  [kind : {"decide"}, policy : TestPolicies, outage : TestOutages,
   weather : TestWeather, elapsed : TestElapsed,
   outcome : AdvisorOutcomes, response : AIResponses]

IdInputs ==
  [kind : {"ids"}, policy_id : PolicyIds, event_id : OutageIds,
   other_event_id : OutageIds, now1 : 0..MaxClock, now2 : 0..MaxClock]

\* events handed to a client: payloads as the publish_* methods build them
TestEvents ==
  { OutageDetectedEvent(InitOutages["OUT-1"], << "BI-001" >>),
    ThresholdExceededEvent("BI-001", InitOutages["OUT-1"], 187, 120) }

TestBatches ==
  { << >> } \cup { << e >> : e \in TestEvents }
            \cup { << e1, e2 >> : e1 \in TestEvents, e2 \in TestEvents }

PublishInputs == [kind : {"publish"}, client : EventClients]

\* a client right after construction, before any call
OpenClient(class) ==
  [pc |-> "open", self |-> NewClient(class), calls |-> 0, submitted |-> 0,
   returned |-> "none", outcome |-> "none"]

FnInit ==
  /\ PipeInit
  /\ din \in DecideInputs \cup IdInputs \cup PublishInputs
  /\ dout = IF din.kind = "publish" THEN OpenClient(din.client) ELSE NoDecision

\* one evaluation of every decision function on the same inputs
Decide ==
  /\ din.kind = "decide"
  /\ dout = NoDecision
  /\ dout' =
       [pc |-> "done",
        fallback |-> fallback_validation(din.policy, din.outage, din.weather, din.elapsed),
        agent_rule |-> agent_rule_based_validation(din.policy, din.outage,
                                                   din.weather, din.elapsed),
        notebook_rule |-> rule_based_validation(din.policy, din.outage, din.weather),
        payout |-> calculate_payout(din.policy, din.outage.duration_minutes, 10),
        weather_factor |-> calculate_weather_factor(din.weather),
        te_result |-> call_foundry_agent(din.policy, din.outage, din.weather,
                                         din.elapsed, din.outcome, din.response),
        nb_result |-> foundry_agent_validation(din.policy, din.outage, din.weather,
                                               din.outcome, din.response)]
  /\ UNCHANGED << din, clock, outage_events, claims, payouts, bus, te, pp,
                  gateway, faults, monitor_runs, orm >>

\* the id functions called at clock readings now1 and now2
MakeIds ==
  /\ din.kind = "ids"
  /\ dout = NoDecision
  /\ dout' =
       LET c1 == create_claim_id(din.policy_id, din.event_id, din.now1)
           c2 == create_claim_id(din.policy_id, din.event_id, din.now2)
       IN  [pc |-> "done",
            claim_id_1 |-> c1, claim_id_2 |-> c2,
            claim_id_other |-> create_claim_id(din.policy_id, din.other_event_id, din.now1),
            payout_id_1 |-> create_payout_id(c1, din.now1),
            payout_id_2 |-> create_payout_id(c1, din.now2)]
  /\ UNCHANGED << din, clock, outage_events, claims, payouts, bus, te, pp,
                  gateway, faults, monitor_runs, orm >>

\* the state of the test after a call that left the client as r[1] and
\* returned r[2]
AfterCall(r, n, outcome) ==
  [dout EXCEPT !.self = r[1], !.returned = r[2], !.calls = @ + 1,
               !.submitted = @ + n, !.outcome = outcome]

\* one publish_event call on the client
PublishEvent ==
  /\ din.kind = "publish"
  /\ dout.calls < MaxPublishCalls
  /\ \E event \in TestEvents, outcome \in TransportOutcomes :
       dout' = AfterCall(
                 IF din.client = "EventGridClient"
                 THEN EventGridClient_publish_event(dout.self, event, outcome)
                 ELSE IF din.client = "NotebookEventGridClient"
                 THEN NotebookEventGridClient_publish_event(dout.self, event, outcome)
                 ELSE LocalEventLogger_publish_event(dout.self, event),
                 1, outcome)
  /\ UNCHANGED << din, clock, outage_events, claims, payouts, bus, te, pp,
                  gateway, faults, monitor_runs, orm >>

\* one publish_batch (EventGridClient: publish_events) call on the client
PublishBatch ==
  /\ din.kind = "publish"
  /\ dout.calls < MaxPublishCalls
  /\ \E events \in TestBatches, outcome \in TransportOutcomes :
       dout' = AfterCall(
                 IF din.client = "EventGridClient"
                 THEN EventGridClient_publish_events(dout.self, events, outcome)
                 ELSE IF din.client = "NotebookEventGridClient"
                 THEN NotebookEventGridClient_publish_batch(dout.self, events, outcome)
                 ELSE LocalEventLogger_publish_batch(dout.self, events),
                 Len(events), outcome)
  /\ UNCHANGED << din, clock, outage_events, claims, payouts, bus, te, pp,
                  gateway, faults, monitor_runs, orm >>

FnNext == Decide \/ MakeIds \/ PublishEvent \/ PublishBatch

SpecFn == FnInit /\ [][FnNext]_vars

\* ------------------------------------------------- one AI Advisor call in time
\* what the reasoning endpoint and the SDK can do to a request that was
\* sent: answer, fail, answer something unparsable, or raise a timeout of
\* their own
TransportOutcomes_advisor == {"ok", "transport_error", "timeout", "unparsable"}

AdviseInputs ==
  [kind : {"advise"}, policy : TestPolicies,
   outage : { o \in TestOutages : Truthy(o.duration_minutes) },
   weather : TestWeather, configured : BOOLEAN]

AdvisorInit ==
  /\ PipeInit
  /\ din \in AdviseInputs
  /\ dout = NoDecision

\* call_foundry_agent up to client.chat.completions.create(...): without a
\* client the rule engine answers at once; with one the request is sent,
\* with no timeout argument on the client or on the call
AdvisorRequest ==
  /\ din.kind = "advise"
  /\ dout.pc = "idle"
  /\ dout' = IF din.configured
             THEN [pc |-> "waiting"]
             ELSE [pc |-> "done",
                   result |-> call_foundry_agent(din.policy, din.outage, din.weather,
                                                 0, "no_client",
                                                 CHOOSE r \in AIResponses : TRUE)]
  /\ UNCHANGED << din, clock, outage_events, claims, payouts, bus, te, pp,
                  gateway, faults, monitor_runs, orm >>

\* the blocking call returns or raises, and call_foundry_agent goes on:
\* _parse_agent_response, or the except branches down to the rule engines
AdvisorResponse ==
  /\ din.kind = "advise"
  /\ dout.pc = "waiting"
  /\ \E outcome \in TransportOutcomes_advisor, response \in AIResponses :
       dout' = [pc |-> "done",
                result |-> call_foundry_agent(din.policy, din.outage, din.weather,
                                              0, outcome, response)]
  /\ UNCHANGED << din, clock, outage_events, claims, payouts, bus, te, pp,
                  gateway, faults, monitor_runs, orm >>

AdvisorNext == AdvisorRequest \/ AdvisorResponse

\* the function runs its own steps; nothing in the program makes the
\* endpoint answer or ends the wait
SpecAdvisor == AdvisorInit /\ [][AdvisorNext]_vars /\ WF_vars(AdvisorRequest)

\* ------------------------------------------------------- one notebook run
\* EVENTGRID_ENABLED at the start of the run
NotebookInputs == [kind : {"notebook"}, enabled : BOOLEAN]

\* the start-up event of cell 0b
TestConnectionEvent ==
  [event_type |-> "test.connection", subject |-> << "test", "notebook-startup" >>]

\* the events steps 5 to 7 publish: outage.detected, claim.approved or
\* claim.denied, payout.processed
NotebookEvents ==
  { [event_type |-> "outage.detected", subject |-> << "outage", "OUT-1" >>],
    [event_type |-> "claim.approved", subject |-> << "claim", "CLM-1" >>],
    [event_type |-> "claim.denied", subject |-> << "claim", "CLM-2" >>],
    [event_type |-> "payout.processed", subject |-> << "payout", "PAY-1" >>] }

\* cell "Initialize": eg_client is a NotebookEventGridClient when Event Grid
\* is enabled, a LocalEventLogger otherwise.  attempts collects every audit
\* record written to an in-memory audit log during the run; persisted is the
\* event_audit_log table.
NotebookInit ==
  /\ PipeInit
  /\ din \in NotebookInputs
  /\ dout = [pc |-> "initialized",
             eg_client |-> NewClient(IF din.enabled THEN "NotebookEventGridClient"
                                     ELSE "LocalEventLogger"),
             enabled |-> din.enabled,
             calls |-> 0, attempts |-> << >>, persisted |-> << >>]

\* the audit records a call added to the client's log
NewRecords(before, after) ==
  SubSeq(after.audit_log, Len(before.audit_log) + 1, Len(after.audit_log))

\* eg_client.publish_event(...) on whichever class eg_client is
eg_client_publish_event(self, event, outcome) ==
  IF self.class = "NotebookEventGridClient"
  THEN NotebookEventGridClient_publish_event(self, event, outcome)
  ELSE LocalEventLogger_publish_event(self, event)

\* cell 0b: the connection test; on failure eg_client = LocalEventLogger()
\* and EVENTGRID_ENABLED = False
ConnectionTest ==
  /\ din.kind = "notebook"
  /\ dout.pc = "initialized"
  /\ IF dout.enabled
     THEN \E outcome \in TransportOutcomes :
            LET r == eg_client_publish_event(dout.eg_client, TestConnectionEvent, outcome)
                test_ok == r[2] = "True"
            IN  dout' = [dout EXCEPT
                           !.pc = "running",
                           !.attempts = @ \o NewRecords(dout.eg_client, r[1]),
                           !.eg_client = IF test_ok THEN r[1]
                                         ELSE NewClient("LocalEventLogger"),
                           !.enabled = test_ok]
     ELSE dout' = [dout EXCEPT !.pc = "running"]
  /\ UNCHANGED << din, clock, outage_events, claims, payouts, bus, te, pp,
                  gateway, faults, monitor_runs, orm >>

\* a publish_event call of steps 5 to 7
NotebookPublish ==
  /\ din.kind = "notebook"
  /\ dout.pc = "running"
  /\ dout.calls < MaxPublishCalls
  /\ \E event \in NotebookEvents, outcome \in TransportOutcomes :
       LET r == eg_client_publish_event(dout.eg_client, event, outcome)
       IN  dout' = [dout EXCEPT !.calls = @ + 1,
                                !.attempts = @ \o NewRecords(dout.eg_client, r[1]),
                                !.eg_client = r[1]]
  /\ UNCHANGED << din, clock, outage_events, claims, payouts, bus, te, pp,
                  gateway, faults, monitor_runs, orm >>

\* step 8: if eg_client.audit_log: ... saveAsTable("event_audit_log")
PersistAuditLog ==
  /\ din.kind = "notebook"
  /\ dout.pc = "running"
  /\ dout' = [dout EXCEPT !.pc = "persisted",
                          !.persisted = @ \o dout.eg_client.audit_log]
  /\ UNCHANGED << din, clock, outage_events, claims, payouts, bus, te, pp,
                  gateway, faults, monitor_runs, orm >>

NotebookNext == ConnectionTest \/ NotebookPublish \/ PersistAuditLog

SpecNotebook == NotebookInit /\ [][NotebookNext]_vars

\* ------------------------------------------- fair at-least-once delivery
\* One active outage (OUT-1); the Event Bus delivers every event to its
\* subscriber, and every enabled step of a function is eventually taken.
DeliveredOutages == {"OUT-1"}

DeliveryInit ==
  /\ clock = 0
  /\ outage_events =
       [o \in OutageIds |->
          IF o \in DeliveredOutages THEN InitOutages[o]
          ELSE [InitOutages[o] EXCEPT !.status = "resolved", !.outage_end = 0]]
  /\ claims = << >>
  /\ payouts = << >>
  /\ bus = << >>
  /\ te = << >>
  /\ pp = << >>
  /\ gateway = << >>
  /\ faults = 0
  /\ monitor_runs = 0
  /\ orm = << >>
  /\ din = NoDecision
  /\ dout = NoDecision

\* event j has been handed to the function that keeps the log
Delivered(log, j) == \E k \in 1..Len(log) : log[k].event = j

\* the Event Grid subscription of the Threshold Evaluator delivers event j
DeliverToEvaluator(j) ==
  /\ ~Delivered(te, j)
  /\ ThresholdEvaluator(j)

\* the Event Grid subscription of the Payout Processor delivers event j
DeliverToProcessor(j) ==
  /\ ~Delivered(pp, j)
  /\ PPStart(j)

DeliveryNext ==
  \/ Tick
  \/ OutageMonitor
  \/ \E j \in 1..Len(bus) : DeliverToEvaluator(j)
  \/ \E j \in 1..Len(bus) : DeliverToProcessor(j)
  \/ \E k \in 1..Len(pp) : PPComplete(k)
  \/ \E k \in 1..Len(pp) : PPMarkFailed(k)

SpecDelivery == DeliveryInit /\ [][DeliveryNext]_vars /\ WF_vars(DeliveryNext)


\* ================================================================= claims
\* C1: for every (policy_id, outage_event_id) pair at most one Claim row
\* exists in the Ledger Store, whatever the number of Threshold Evaluator
\* invocations for the same OutageDetected event.
C1_OneClaimPerPolicyOutage ==
  \A a, b \in 1..Len(claims) :
    (claims[a].policy_id = claims[b].policy_id
       /\ claims[a].outage_event_id = claims[b].outage_event_id) => a = b

\* C2: the Payment Gateway is invoked at most once for one claim_id, however
\* often the ClaimApproved event is delivered.
C2_GatewayOncePerClaim ==
  \A a, b \in 1..Len(gateway) :
    gateway[a].claim_id = gateway[b].claim_id => a = b

\* C3: for each claim_id at most one Payout row has a status other than
\* failed.
C3_OneLivePayoutPerClaim ==
  \A a, b \in 1..Len(payouts) :
    (payouts[a].claim_id = payouts[b].claim_id
       /\ payouts[a].status # "failed" /\ payouts[b].status # "failed") => a = b

\* C4: create_claim_id gives the same claim_id for the same (policy_id,
\* outage_event_id) whenever it is called, and create_payout_id the same
\* payout_id for the same claim_id.
C4_DeterministicIds ==
  (din.kind = "ids" /\ dout.pc = "done") =>
    (dout.claim_id_1 = dout.claim_id_2 /\ dout.payout_id_1 = dout.payout_id_2)

\* C5: every persisted Claim has 0 <= payout_amount <= max_payout of its
\* policy, whichever strategy gave the verdict.
C5_PayoutWithinCap ==
  \A a \in 1..Len(claims) :
    /\ claims[a].payout_amount >= 0
    /\ claims[a].payout_amount <= policies[claims[a].policy_id].max_payout * MoneyScale

\* C6: every Payout row carries the payout_amount of the Claim row stored
\* under its claim_id (the row get_claim returns).
C6_PayoutAmountIsClaimAmount ==
  \A a \in 1..Len(payouts) :
    get_claim(payouts[a].claim_id) # 0
      => payouts[a].amount = claims[get_claim(payouts[a].claim_id)].payout_amount

\* the status orders: filed -> validating -> {approved, denied}, approved ->
\* paid, and pending -> processing -> {completed, failed}
ClaimForward(s, t) ==
  \/ s = t
  \/ s = "pending" /\ t \in {"validating", "approved", "denied", "paid"}
  \/ s = "validating" /\ t \in {"approved", "denied", "paid"}
  \/ s = "approved" /\ t = "paid"

PayoutForward(s, t) ==
  \/ s = t
  \/ s = "pending" /\ t \in {"processing", "completed", "failed"}
  \/ s = "processing" /\ t \in {"completed", "failed"}

\* C7: no stored Claim or Payout ever moves to an earlier status or between
\* sibling terminal statuses.
C7_StatusMonotonic ==
  [][ /\ \A a \in 1..Len(claims) : ClaimForward(claims[a].status, claims'[a].status)
      /\ \A a \in 1..Len(payouts) : PayoutForward(payouts[a].status, payouts'[a].status)
    ]_vars

\* a result the caller can use: returned, with every required key
Usable(r) == ~r.error /\ r.complete

\* C8: on any AI Advisor failure the call falls back to the Rule Engine and
\* returns a usable result, in the Threshold Evaluator and in the notebook.
C8_AdvisorFailureFallsBack ==
  (din.kind = "decide" /\ dout.pc = "done" /\ din.outcome # "ok"
     /\ ~dout.fallback.error /\ ~dout.notebook_rule.error) =>
    /\ Usable(dout.te_result)
    /\ dout.te_result \in {dout.fallback, dout.agent_rule}
    /\ Usable(dout.nb_result)
    /\ dout.nb_result = dout.notebook_rule

\* C9: with duration_minutes <= threshold_minutes the decision is deny and
\* the payout 0.
C9_BelowThresholdDenied ==
  (din.kind = "decide" /\ dout.pc = "done"
     /\ din.outage.duration_minutes # NONE
     /\ din.outage.duration_minutes <= din.policy.threshold_minutes) =>
    /\ dout.fallback.decision = "deny" /\ dout.fallback.payout_amount = 0
    /\ dout.notebook_rule.decision = "denied" /\ dout.notebook_rule.payout_amount = 0
    /\ dout.payout = 0

\* C10: with reported_cause planned_maintenance the decision is deny whatever
\* the duration, and the fraud signals hold the planned-maintenance signal,
\* in each of the three rule engines.
C10_PlannedMaintenanceDenied ==
  (din.kind = "decide" /\ dout.pc = "done"
     /\ Truthy(din.outage.duration_minutes)
     /\ din.outage.reported_cause = PLANNED) =>
    /\ dout.fallback.decision = "deny"
    /\ PlannedSignal \in dout.fallback.fraud_signals
    /\ dout.agent_rule.decision = "deny"
    /\ PlannedSignal \in dout.agent_rule.fraud_signals
    /\ dout.notebook_rule.decision = "denied"
    /\ PlannedSignal \in dout.notebook_rule.fraud_signals

\* C11: a publish call never raises to its caller: whatever the transport
\* does, the call returns a boolean, False exactly when the send failed
\* (the local logger has no transport and returns True).
C11_PublishNeverRaises ==
  (din.kind = "publish" /\ dout.calls > 0) =>
    /\ dout.returned \in {"True", "False"}
    /\ dout.returned = "False" <=>
         (din.client # "LocalEventLogger" /\ dout.outcome # "ok")

\* a failed publish has returned False to its caller
C11_Witness ==
  /\ din.kind = "publish" /\ din.client = "EventGridClient"
  /\ dout.calls > 0 /\ dout.outcome = "timeout" /\ dout.returned = "False"

\* C12: every publish through the event client of the pipeline stages
\* (EventGridClient) writes exactly one Audit Log row, delivered or not.
C12_PipelinePublishAudited ==
  (din.kind = "publish" /\ din.client = "EventGridClient") =>
    Len(dout.self.audit_log) = dout.submitted

\* C13: on an audit-logging client the audit log holds exactly one record per
\* event submitted, failed attempts included, with sequence numbers 1, 2, ...
\* and every status one of published, failed, local_only.
C13_AuditLogComplete ==
  (din.kind = "publish" /\ din.client # "EventGridClient") =>
    /\ Len(dout.self.audit_log) = dout.submitted
    /\ \A i \in 1..Len(dout.self.audit_log) :
         /\ dout.self.audit_log[i].status \in {"published", "failed", "local_only"}
         /\ dout.self.audit_log[i].sequence = i

\* a failed batch of two events is in the log after an earlier call
C13_Witness ==
  /\ din.kind = "publish" /\ din.client = "NotebookEventGridClient"
  /\ dout.calls = 2 /\ dout.outcome # "ok" /\ dout.submitted >= 3
  /\ dout.self.audit_log[Len(dout.self.audit_log)].status = "failed"
  /\ dout.self.audit_log[Len(dout.self.audit_log) - 1].status = "failed"

\* the policies an outage affects: zip-matched and radius-matched, each
\* policy_id once
PolicyUnion(o) ==
  Dedup(get_policies_in_zip(outage_events[o].zip_code)
          \o (IF outage_events[o].has_coordinates
              THEN get_policies_near_location(o) ELSE << >>))

\* the OutageDetected events on the bus for outage o
DetectedEvents(o) ==
  SelectSeq(bus, LAMBDA e : e.event_type = "outage.detected" /\ e.event_id = o)

\* C14: each Outage Monitor run publishes, for every active outage, exactly
\* one OutageDetected event when the union of its zip-matched and
\* radius-matched policies is non-empty and none when it is empty, and the
\* event carries that union (stated for runs in which no send failed).
C14_OneDetectedPerAffectedOutage ==
  faults = 0 =>
    \A o \in OutageIds :
      outage_events[o].status = "active" =>
        /\ Len(DetectedEvents(o)) =
             (IF PolicyUnion(o) = << >> THEN 0 ELSE monitor_runs)
        /\ \A i \in 1..Len(DetectedEvents(o)) :
             DetectedEvents(o)[i].affected_policies = PolicyUnion(o)

\* the active outages for which the zip lookup finds policies
ZipAffected ==
  { o \in OutageIds : /\ outage_events[o].status = "active"
                      /\ get_policies_in_zip(outage_events[o].zip_code) # << >> }

RECURSIVE SumDetected(_)
SumDetected(os) ==
  IF os = {} THEN 0
  ELSE LET o == CHOOSE x \in os : TRUE
       IN  Len(DetectedEvents(o)) + SumDetected(os \ {o})

DuePositions(k) ==
  LET e == bus[te[k].event]
  IN  { i \in 1..Len(e.affected_policies) :
          /\ e.affected_policies[i] \in DOMAIN policies
          /\ outage_events[e.event_id].duration_minutes
               >= policies[e.affected_policies[i]].threshold_minutes }

\* C16: in a Threshold Evaluator invocation an error on one policy skips only
\* that policy: every other policy of the list that is past its threshold
\* still gets its verdict.
C16_PolicyErrorIsolated ==
  \A k \in 1..Len(te) :
    te[k].pc = "done" =>
      \A i \in DuePositions(k) : i \notin te[k].errors => i \in te[k].reached

\* the first policy of a list failed and the second got its verdict
C16_Witness ==
  \E k \in 1..Len(te) :
    /\ te[k].pc = "done"
    /\ 1 \in te[k].errors
    /\ 2 \in te[k].reached

\* C17: the Threshold Evaluator creates no Claim and publishes no
\* threshold-exceeded, ClaimApproved or ClaimDenied event for a policy whose
\* threshold_minutes is greater than the outage's duration_minutes.
C17_NoClaimBelowThreshold ==
  /\ \A a \in 1..Len(claims) :
       policies[claims[a].policy_id].threshold_minutes
         <= outage_events[claims[a].outage_event_id].duration_minutes
  /\ \A b \in 1..Len(bus) :
       /\ bus[b].event_type = "outage.threshold.exceeded" =>
            policies[bus[b].policy_id].threshold_minutes
              <= outage_events[bus[b].event_id].duration_minutes
       /\ bus[b].event_type \in {"claim.approved", "claim.denied"} =>
            policies[bus[b].policy_id].threshold_minutes
              <= outage_events[bus[b].outage_event_id].duration_minutes

\* an invocation has passed over a policy below its threshold and given a
\* verdict for another policy of the same list
C17_Witness ==
  \E k \in 1..Len(te) :
    /\ te[k].pc = "done"
    /\ te[k].reached # {}
    /\ \E i \in 1..Len(bus[te[k].event].affected_policies) :
         policies[bus[te[k].event].affected_policies[i]].threshold_minutes
           > outage_events[bus[te[k].event].event_id].duration_minutes

\* the decision engine's verdict is an approval / a denial, in the wording of
\* either strategy
IsApproval(decision) == decision \in {"approve", "approved"}
IsDenial(decision) == decision \in {"deny", "denied"}

\* the status under which invocation k handled the policy at position i: the
\* status of the Claim it built, which is also what its event announces
HandledAs(k, i) ==
  LET e == bus[te[k].event]
      claim_id == create_claim_id(e.affected_policies[i], e.event_id, te[k].now)
      rows == { a \in 1..Len(claims) : claims[a].claim_id = claim_id }
      events == { b \in 1..Len(bus) :
                    /\ bus[b].event_type \in {"claim.approved", "claim.denied"}
                    /\ bus[b].claim_id = claim_id }
  IN  { IF claims[a].status = "paid" THEN "approved" ELSE claims[a].status : a \in rows }
        \cup { bus[b].status : b \in events }

\* C18: for every evaluated policy the Claim is stored as approved and
\* ClaimApproved is published exactly when the verdict is an approval, and
\* stored as denied with ClaimDenied exactly when it is a denial (stated for
\* invocations that ran in a second of their own, so that their claim ids
\* are theirs alone).
C18_StatusFollowsVerdict ==
  \A k \in 1..Len(te) :
    (/\ te[k].pc = "done"
     /\ \A k2 \in 1..Len(te) :
          (k2 # k /\ te[k2].pc = "done") => te[k2].now # te[k].now)
    => \A i \in te[k].reached :
         /\ IsApproval(te[k].verdicts[i]) => HandledAs(k, i) \subseteq {"approved"}
         /\ IsDenial(te[k].verdicts[i]) => HandledAs(k, i) \subseteq {"denied"}

\* an event payload without claim_id or policy_id, or whose payout_amount is
\* missing, zero or negative
LacksOrNonPositive(event) ==
  \/ event.claim_id = << >>
  \/ event.policy_id = ""
  \/ event.payout_amount = NONE
  \/ event.payout_amount <= 0

\* C19: a Payout Processor invocation whose event lacks claim_id or
\* policy_id, or whose payout_amount is missing, zero or negative, returns
\* and leaves the Payout table, the Payment Gateway, the Claim table and the
\* bus as they were.
C19_GuardedInvocationChangesNothing ==
  [][ (/\ Len(pp') = Len(pp) + 1
       /\ LacksOrNonPositive(bus[pp'[Len(pp')].event]))
      => /\ pp'[Len(pp')].pc = "returned"
         /\ payouts' = payouts
         /\ gateway' = gateway
         /\ claims' = claims
         /\ bus' = bus ]_vars

\* a payment was made for the well-formed event, and the event with a
\* negative amount was then delivered and ignored
C19_Witness ==
  /\ Len(payouts) = 1
  /\ Len(gateway) = 1
  /\ \E k \in 2..Len(pp) :
       /\ pp[k].pc = "returned"
       /\ LacksOrNonPositive(bus[pp[k].event])
       /\ bus[pp[k].event].payout_amount < NONE

\* the steps of an invocation whose failure is a Store or bus failure
StoreSteps == {"insert_payout", "update_payout", "update_claim", "publish_payout"}

C22_MonitorOnlyReads ==
  [][ monitor_runs' # monitor_runs
      => /\ outage_events' = outage_events
         /\ claims' = claims
         /\ payouts' = payouts ]_vars

\* a run has published for one outage and lost the event of another; the
\* outages are still active
C22_Witness ==
  /\ monitor_runs > 0
  /\ faults > 0
  /\ \E j \in 1..Len(bus) : bus[j].event_type = "outage.detected"
  /\ \A o \in OutageIds : outage_events[o].status = "active"

\* C23: with wind = max(wind_speed, wind_gust) the weather mapping is
\* severe/1.5 when the alert flag is set and the alert type is severe or
\* hurricane or wind > 55, else high/1.2 when the alert flag is set or
\* wind > 40, else medium/1.1 when wind > 25, else low/1.0, also without
\* weather data; calculate_weather_factor returns it, and an approval of
\* fallback_validation carries it.
C23_WeatherSeverityMapping ==
  (din.kind = "decide" /\ dout.pc = "done") =>
    LET w == din.weather
        wind == Max(w.wind_speed_mph, w.wind_gust_mph)
        mapping ==
          IF ~w.present THEN << 10, "low" >>
          ELSE IF w.severe_weather_alert
                  /\ (w.alert_type \in {"Severe", "Hurricane"} \/ wind > 55)
          THEN << 15, "severe" >>
          ELSE IF w.severe_weather_alert \/ wind > 40 THEN << 12, "high" >>
          ELSE IF wind > 25 THEN << 11, "medium" >>
          ELSE << 10, "low" >>
    IN  /\ dout.weather_factor = mapping
        /\ (~dout.fallback.error /\ dout.fallback.decision = "approve")
           => << dout.fallback.weather_factor,
                 dout.fallback.severity_assessment >> = mapping

\* C24: for an approved claim the payout is min((duration - threshold)/60 x
\* hourly_rate x multiplier, max_payout), to the cent in the notebook engine
\* and exactly in the fallback engine; with threshold 120, rate $500, max
\* $10000, duration 187 and severe weather (1.5x) the base payout is $558.33
\* and the payout $837.50, approved.
C24_PayoutFormula ==
  (din.kind = "decide" /\ dout.pc = "done") =>
    LET excess == din.outage.duration_minutes - din.policy.threshold_minutes
        cap == din.policy.max_payout * MoneyScale
        nb == dout.notebook_rule
        fb == dout.fallback
        exact_nb == Min(excess * din.policy.hourly_rate * nb.weather_factor, cap)
        exact_fb == Min(excess * din.policy.hourly_rate * fb.weather_factor, cap)
        example == /\ din.policy.threshold_minutes = 120
                   /\ din.policy.max_payout = 10000
                   /\ din.outage.duration_minutes = 187
    IN  /\ (~nb.error /\ nb.decision = "approved")
           => /\ nb.payout_amount - exact_nb \in (0 - 3)..3
              /\ (example /\ nb.weather_factor = 15)
                 => /\ nb.payout_amount * 100 = 83750 * MoneyScale
                    /\ RoundCents(excess * din.policy.hourly_rate * 10) * 100
                         = 55833 * MoneyScale
        /\ (~fb.error /\ fb.decision = "approve" /\ Truthy(din.outage.duration_minutes))
           => /\ fb.payout_amount = exact_fb
              /\ (example /\ fb.weather_factor = 15)
                 => fb.payout_amount * 100 = 83750 * MoneyScale

\* the worked example has been evaluated: 187 minutes against 120, severe
\* weather, approved with $837.50
C24_Witness ==
  /\ din.kind = "decide"
  /\ dout.pc = "done"
  /\ din.policy.threshold_minutes = 120
  /\ din.policy.max_payout = 10000
  /\ din.outage.duration_minutes = 187
  /\ dout.notebook_rule.decision = "approved"
  /\ dout.notebook_rule.severity_assessment = "severe"
  /\ dout.notebook_rule.payout_amount * 100 = 83750 * MoneyScale

\* C25: every result returned by a rule engine or by an AI Advisor call has
\* decision approve or deny, a confidence between 0 and 1, a payout that is
\* not negative, and severity low, medium, high or severe.
C25_ResultWellFormed ==
  (din.kind = "decide" /\ dout.pc = "done") =>
    \A r \in {dout.fallback, dout.agent_rule, dout.notebook_rule,
              dout.te_result, dout.nb_result} :
      ~r.error
      => /\ r.decision \in {"approve", "deny"}
         /\ r.confidence_score \in 0..10000
         /\ r.payout_amount >= 0
         /\ r.severity_assessment \in {"low", "medium", "high", "severe"}

\* C26: the Rule Engine is a function of policy, outage and weather alone: a
\* second evaluation of the same inputs, made any number of minutes later,
\* returns what the first returned (fallback engine, agent-side engine and
\* notebook engine).
C26_RuleEngineDeterministic ==
  (din.kind = "decide" /\ dout.pc = "done") =>
    \A later \in TestElapsed :
      /\ fallback_validation(din.policy, din.outage, din.weather, later)
           = dout.fallback
      /\ agent_rule_based_validation(din.policy, din.outage, din.weather, later)
           = dout.agent_rule
      /\ rule_based_validation(din.policy, din.outage, din.weather)
           = dout.notebook_rule

\* C27: the confidence score of a rule engine's result never exceeds 0.99,
\* and every denial carries confidence 0.95.
C27_ConfidenceBounded ==
  (din.kind = "decide" /\ dout.pc = "done") =>
    \A r \in {dout.notebook_rule, dout.fallback, dout.agent_rule} :
      ~r.error
      => /\ r.confidence_score <= 9900
         /\ r.decision \in {"denied", "deny"} => r.confidence_score = 9500

\* C28: resolving an outage is idempotent per event_id: once a row is
\* resolved, a further application (by a repeated or an overlapping run that
\* had read the outage as active) leaves the row as it is; and an Outage
\* Monitor run racing with the resolution still publishes for every
\* zip-matched outage that is active when it reads.
C28_ResolutionIdempotent ==
  [][ /\ \A o \in OutageIds :
           outage_events[o].status = "resolved"
           => outage_events'[o] = outage_events[o]
      /\ (monitor_runs' # monitor_runs /\ faults' = faults)
         => \A o \in OutageIds :
              (/\ outage_events[o].status = "active"
               /\ get_policies_in_zip(outage_events[o].zip_code) # << >>)
              => \E j \in 1..Len(bus') :
                   /\ bus'[j].event_type = "outage.detected"
                   /\ bus'[j].event_id = o ]_vars

\* C29: an invocation of the Threshold Evaluator works with the duration the
\* outage row has in the Ledger Store when the invocation runs: that is the
\* duration in every threshold-exceeded event it publishes, the one that
\* decides which policies are past their threshold, and the one the rule
\* engines compute a payout from, however much the outage has grown since
\* it was detected.
C29_DecidesOnFreshDuration ==
  [][ (Len(te') = Len(te) + 1 /\ te'[Len(te')].pc = "done")
      => LET t == te'[Len(te')]
             ids == bus[t.event].affected_policies
             outage == outage_events[bus[t.event].event_id]
             d == outage.duration_minutes
             weather == MostRecentWeather(outage.zip_code)
         IN  /\ \A b \in (Len(bus) + 1)..Len(bus') :
                  bus'[b].event_type = "outage.threshold.exceeded"
                  => bus'[b].duration_minutes = d
             /\ \A i \in t.reached : policies[ids[i]].threshold_minutes <= d
             /\ \A i \in 1..Len(ids) :
                  policies[ids[i]].threshold_minutes <= d
                  => i \in t.reached \cup t.errors
             /\ \A c \in (Len(claims) + 1)..Len(claims') :
                  LET policy == policies[claims'[c].policy_id]
                  IN  claims'[c].payout_amount
                        \in { fallback_validation(policy, outage, weather, 0).payout_amount,
                              agent_rule_based_validation(policy, outage, weather, 0).payout_amount }
                            \cup { r.payout_amount : r \in AIResponses } ]_vars

\* the outage of an invocation grew after its detection, and a policy whose
\* threshold the detected duration did not reach got its verdict
C29_Witness ==
  \E k \in 1..Len(te) :
    /\ te[k].pc = "done"
    /\ \E i \in te[k].reached :
         LET o == bus[te[k].event].event_id
             threshold == policies[bus[te[k].event].affected_policies[i]].threshold_minutes
         IN  /\ InitOutages[o].duration_minutes < threshold
             /\ outage_events[o].duration_minutes >= threshold

\* C30: every AI Advisor call made for a policy past its threshold ends with
\* a verdict: a call that makes no progress is cut off and the rule engine
\* answers.
C30_AdvisorCallEnds ==
  (din.kind = "advise") ~> (dout.pc = "done")

\* C31: the audit log persisted at the end of a notebook run holds every
\* audit record written during the run, in order, the record of a failed
\* start-up connection test included.
C31_PersistedAuditLogComplete ==
  (din.kind = "notebook" /\ dout.pc = "persisted") =>
    dout.persisted = dout.attempts

\* the Ledger Store holds a completed Payout with a transaction id for the
\* claim
HasCompletedPayout(claim_id) ==
  \E i \in 1..Len(payouts) :
    /\ payouts[i].claim_id = claim_id
    /\ payouts[i].status = "completed"
    /\ payouts[i].transaction_id # << >>

\* C32: whenever a Claim is paid, or a PayoutProcessed event has been
\* published for it, the Ledger Store holds a completed Payout with a
\* transaction id for that claim_id, also after a store write that failed
\* silently.
C32_PaidImpliesCompletedPayout ==
  /\ \A c \in 1..Len(claims) :
       claims[c].status = "paid" => HasCompletedPayout(claims[c].claim_id)
  /\ \A b \in 1..Len(bus) :
       bus[b].event_type = "payout.processed" => HasCompletedPayout(bus[b].claim_id)

\* C33: the Payment Gateway is invoked only after a Payout row in status
\* processing has been persisted for the payout being settled; when the insert
\* fails there is no settlement.
C33_GatewayOnlyAfterPersistedPayout ==
  [][ Len(gateway') > Len(gateway) =>
        \E i \in 1..Len(payouts') :
          /\ payouts'[i].payout_id = gateway'[Len(gateway')].payout_id
          /\ payouts'[i].status = "processing" ]_vars

\* C34: the Payout Processor settles only a claim whose stored status is
\* approved at the time of the settlement; a denied or already paid claim is
\* never settled.
C34_SettlesOnlyApprovedClaims ==
  [][ Len(gateway') > Len(gateway) =>
        LET row == get_claim(gateway'[Len(gateway')].claim_id)
        IN  row # 0 /\ claims[row].status = "approved" ]_vars

\* a ClaimApproved / ClaimDenied event
IsClaimValidated(event) ==
  event.event_type \in {"claim.approved", "claim.denied"}

\* C35: a ClaimApproved or ClaimDenied event is published only for a claim
\* whose row has been persisted: at the time of publication the store holds a
\* Claim with the event's claim_id, status and payout_amount.
C35_PublishedClaimsAreStored ==
  [][ \A b \in (Len(bus) + 1)..Len(bus') :
        IsClaimValidated(bus'[b]) =>
          \E c \in 1..Len(claims') :
            /\ claims'[c].claim_id = bus'[b].claim_id
            /\ claims'[c].status = bus'[b].status
            /\ claims'[c].payout_amount = bus'[b].payout_amount ]_vars

\* C36: claim ids do not collide across pairs: two stored Claims of different
\* (policy_id, outage_event_id) pairs never carry the same claim_id.
C36_ClaimIdsDistinctAcrossPairs ==
  \A i, j \in 1..Len(claims) :
    claims[i].claim_id = claims[j].claim_id =>
      /\ claims[i].policy_id = claims[j].policy_id
      /\ claims[i].outage_event_id = claims[j].outage_event_id

\* C37: every Claim stored with status denied has payout_amount 0, including
\* planned-maintenance denials: a result that the Threshold Evaluator stores as
\* denied (any decision other than approve), or that the notebook stores as
\* denied (status is the decision word), carries payout_amount 0.
C37_DeniedClaimsPayNothing ==
  (din.kind = "decide" /\ dout.pc = "done") =>
    /\ \A r \in {dout.notebook_rule, dout.nb_result} :
         (r.complete /\ r.decision = "denied") => r.payout_amount = 0
    /\ \A r \in {dout.fallback, dout.agent_rule, dout.te_result} :
         (~r.error /\ ClaimStatusOf(r.decision) = "denied") => r.payout_amount = 0

\* the claim ids the Threshold Evaluator can assign for the delivered outage
ClaimIdsOfRun ==
  { create_claim_id(p, o, t) : p \in PolicyIds, o \in DeliveredOutages,
                               t \in 0..MaxClock }

\* the store holds the claim as approved with a positive payout_amount
ApprovedPositive(claim_id) ==
  \E c \in 1..Len(claims) :
    /\ claims[c].claim_id = claim_id
    /\ claims[c].status = "approved"
    /\ claims[c].payout_amount > 0

\* the store holds a Payout of the claim in status completed or failed
HasSettledPayout(claim_id) ==
  \E i \in 1..Len(payouts) :
    /\ payouts[i].claim_id = claim_id
    /\ payouts[i].status \in {"completed", "failed"}

\* C38: under fair scheduling and at-least-once delivery every Claim stored as
\* approved with a positive payout_amount eventually has a Payout in status
\* completed or failed, also when the publication of ClaimApproved failed.
C38_ApprovedClaimEventuallySettled ==
  \A id \in ClaimIdsOfRun : ApprovedPositive(id) ~> HasSettledPayout(id)

\* the decision of a result, whichever spelling the implementation uses
DecisionKind(r) ==
  IF r.decision \in {"approve", "approved"} THEN "approve"
  ELSE IF r.decision \in {"deny", "denied"} THEN "deny"
  ELSE r.decision

\* what the three rule implementations are compared on
Verdict(r) ==
  << DecisionKind(r), r.weather_factor, r.severity_assessment, r.payout_amount >>

\* C39: fallback_validation, _rule_based_validation and the notebook's
\* rule_based_validation return the same decision, weather multiplier,
\* severity and payout for every input on which all three return.
C39_RuleImplementationsAgree ==
  (din.kind = "decide" /\ dout.pc = "done"
     /\ ~dout.fallback.error /\ ~dout.agent_rule.error
     /\ ~dout.notebook_rule.error) =>
    /\ Verdict(dout.fallback) = Verdict(dout.agent_rule)
    /\ Verdict(dout.agent_rule) = Verdict(dout.notebook_rule)

====
